---- MODULE Spec2Model ----
(***************************************************************************)
(* AggMetric: the per-series circular buffer of chunks of metrictank.      *)
(* One AggMetric (one key) is modelled together with what it talks to: the *)
(* store's write queue (the requests it received), the aggregators (the    *)
(* samples fanned out to them), the totalPoints channel, the cluster role  *)
(* and the wall clock.  Every exported method runs under the AggMetric's   *)
(* lock, so each is one atomic action.  Positions are 0-based as in the    *)
(* source; At/SetAt translate to TLA+ sequences.                           *)
(***************************************************************************)
EXTENDS Integers, Sequences, FiniteSets

\* ---------------------------------------------------------------- bounds
MaxSpans == 4
MaxNow == 1
MaxNumChunks == 2
MaxGrow == 4
NumAggs == 2
QueueCap == 1

\* ------------------------------------------------------ program constants
ChunkSpan == 60
MaxInt32 == 2147483647

T0Set == {k * ChunkSpan : k \in 1..MaxSpans}
\* two samples per span: one on the boundary, one inside the span
TsSet == {t0 + off : t0 \in T0Set, off \in {0, 40}}
ValOf(ts) == ts \div 20
WallClock == 0..MaxNow
GcArgs == 0..(MaxNow + 1)

VARIABLES a, store, aggregators, totalPoints, isPrimary, now, ret, call, queue,
          writer

vars ==
  <<a, store, aggregators, totalPoints, isPrimary, now, ret, call, queue, writer>>

\* ------------------------------------------------------------- sequences
At(s, pos) == s[pos + 1]
SetAt(s, pos, c) == [s EXCEPT ![pos + 1] = c]

RECURSIVE Reverse(_)
Reverse(s) == IF s = <<>> THEN <<>> ELSE Append(Reverse(Tail(s)), Head(s))

\* ------------------------------------------------------------------ Chunk
\* The Chunk type is not part of the sources at hand; it is modelled from
\* its description: fields t0, last_ts, last_write, num_points, saving,
\* saved; push appends a point newer than last_ts; finish seals the chunk.
NewChunk(t0) ==
  [T0 |-> t0, LastTs |-> 0, LastWrite |-> 0, NumPoints |-> 0,
   Saving |-> FALSE, Saved |-> FALSE, Finished |-> FALSE, Points |-> <<>>]

PushOk(c, ts) == ts > c.LastTs

Push(c, ts, val, clock) ==
  [c EXCEPT !.LastTs = ts, !.LastWrite = clock, !.NumPoints = @ + 1,
            !.Points = Append(@, <<ts, val>>)]

Finish(c, clock) == [c EXCEPT !.Finished = TRUE, !.LastWrite = clock]

\* --------------------------------------------------------------- AggMetric
NewAggMetric(numChunks) ==
  [Chunks |-> <<>>, CurrentChunkPos |-> 0, NumChunks |-> numChunks,
   firstChunkT0 |-> 0]

\* a nil *Chunk
Nil == [NewChunk(0) EXCEPT !.T0 = -1]

getChunk(m, pos) ==
  IF pos < 0 \/ pos >= Len(m.Chunks) THEN Nil ELSE At(m.Chunks, pos)

\* ---------------------------------------------------------------- persist
\* (mutant of mayWrite: the role is not looked at)
mayWriteAlways(primary) == TRUE

\* (mutant of mayWrite: nobody goes on to the write queue)
mayWriteNever(primary) == FALSE

\* the role check of persist: only the primary goes on to the write queue
mayWrite(primary) == primary

\* the test of the catch-up loop on the chunk before the one looked at
needsSaving(previousChunk, chunk) ==
  (previousChunk.T0 < chunk.T0) /\ ~previousChunk.Saved /\ ~previousChunk.Saving

\* the catch-up loop: positions appended to pending, newest first
RECURSIVE persistWalk(_, _, _, _)
persistWalk(Chunks, chunk, previousPos, pending) ==
  LET previousChunk == At(Chunks, previousPos) IN
  IF needsSaving(previousChunk, chunk)
  THEN persistWalk(Chunks, chunk,
                   IF previousPos - 1 < 0 THEN previousPos - 1 + Len(Chunks)
                                          ELSE previousPos - 1,
                   Append(pending, previousPos))
  ELSE pending

\* (mutant of sendOrder: pending handed over first to last)
sendOrderFirstToLast(pending) == pending

\* the order in which pending is handed to store.Add: last to first
sendOrder(pending) == Reverse(pending)

\* the positions persist(pos) passes to store.Add, in the order of the calls
pendingOrder(Chunks, pos) ==
  LET previousPos == IF pos - 1 < 0 THEN pos - 1 + Len(Chunks) ELSE pos - 1
  IN sendOrder(persistWalk(Chunks, At(Chunks, pos), previousPos, <<pos>>))

\* persist(pos): the AggMetric afterwards and the t0 of every request handed
\* to the store, in the order of the store.Add calls
persist(m, pos, primary, clock) ==
  LET finished == SetAt(m.Chunks, pos, Finish(At(m.Chunks, pos), clock))
  IN IF ~mayWrite(primary)
     THEN [m |-> [m EXCEPT !.Chunks = finished], reqs |-> <<>>]
     ELSE LET order == pendingOrder(finished, pos)
              sent == {order[k] : k \in DOMAIN order}
          IN [m |-> [m EXCEPT !.Chunks =
                        [i \in DOMAIN finished |->
                           IF (i - 1) \in sent
                           THEN [finished[i] EXCEPT !.Saving = TRUE]
                           ELSE finished[i]]],
              reqs |-> [k \in DOMAIN order |-> At(finished, order[k]).T0]]

\* -------------------------------------------------------------------- Add
\* (mutant of rejectSaved: a saved chunk is written to)
rejectSavedNever(currentChunk) == FALSE

\* (mutant of goesBack: an older t0 rolls the ring over)
goesBackNever(t0, currentChunk) == FALSE

\* the branch tests of Add on an existing current chunk
rejectSaved(currentChunk) == currentChunk.Saved
goesBack(t0, currentChunk) == t0 < currentChunk.T0

\* the rollover's step of CurrentChunkPos
advancePos(pos, numChunks) == IF pos + 1 >= numChunks THEN 0 ELSE pos + 1

\* (mutant of ringHasRoom: off by one, a full ring is appended to once more)
ringHasRoomOffByOne(m) == Len(m.Chunks) <= m.NumChunks

\* whether the rollover appends a slot (else it overwrites one)
ringHasRoom(m) == Len(m.Chunks) < m.NumChunks

\* the rollover of Add from the return of persist on: CurrentChunkPos steps,
\* the new chunk is appended or put over the oldest, the sample is pushed
rollOver(m, ts, val, clock) ==
  LET t0 == ts - (ts % ChunkSpan)
      pos == advancePos(m.CurrentChunkPos, m.NumChunks)
      moved == [m EXCEPT !.CurrentChunkPos = pos]
  IN IF ringHasRoom(moved)
     THEN LET grown == [moved EXCEPT !.Chunks = Append(@, NewChunk(t0))]
              target == At(grown.Chunks, pos)
          IN IF PushOk(target, ts)
             THEN [m |-> [grown EXCEPT !.Chunks =
                             SetAt(@, pos, Push(target, ts, val, clock))],
                   deltas |-> <<>>, fan |-> TRUE, out |-> "appended"]
             ELSE [m |-> grown, deltas |-> <<>>, fan |-> FALSE, out |-> "panic"]
     ELSE LET delta == (-1) * At(moved.Chunks, pos).NumPoints
              fresh == NewChunk(t0)
          IN IF PushOk(fresh, ts)
             THEN [m |-> [moved EXCEPT !.Chunks =
                             SetAt(@, pos, Push(fresh, ts, val, clock))],
                   deltas |-> <<delta>>, fan |-> TRUE, out |-> "overwrote"]
             ELSE [m |-> [moved EXCEPT !.Chunks = SetAt(@, pos, fresh)],
                   deltas |-> <<delta>>, fan |-> FALSE, out |-> "panic"]

\* what Add does: the AggMetric afterwards, the requests handed to the store,
\* the deltas sent on totalPoints, whether the sample reached addAggregators,
\* and the branch taken ("panic": the process aborts where it stands)
Add(m, ts, val, primary, clock) ==
  LET t0 == ts - (ts % ChunkSpan)
      currentChunk == getChunk(m, m.CurrentChunkPos)
      dropped(why) == [m |-> m, reqs |-> <<>>, deltas |-> <<>>, fan |-> FALSE,
                       out |-> why]
  IN
  IF currentChunk = Nil
  THEN LET first == NewChunk(t0) IN
       IF PushOk(first, ts)
       THEN [m |-> [m EXCEPT !.Chunks = Append(@, Push(first, ts, val, clock)),
                             !.firstChunkT0 = t0],
             reqs |-> <<>>, deltas |-> <<>>, fan |-> TRUE, out |-> "first"]
       ELSE [m |-> [m EXCEPT !.Chunks = Append(@, first), !.firstChunkT0 = t0],
             reqs |-> <<>>, deltas |-> <<>>, fan |-> FALSE, out |-> "panic"]
  ELSE IF t0 = currentChunk.T0
  THEN IF rejectSaved(currentChunk)
       THEN dropped("saved")
       ELSE IF PushOk(currentChunk, ts)
       THEN [m |-> [m EXCEPT !.Chunks = SetAt(@, m.CurrentChunkPos,
                                              Push(currentChunk, ts, val, clock))],
             reqs |-> <<>>, deltas |-> <<>>, fan |-> TRUE, out |-> "pushed"]
       ELSE dropped("pushfail")
  ELSE IF goesBack(t0, currentChunk)
  THEN dropped("old")
  ELSE LET p == persist(m, m.CurrentChunkPos, primary, clock)
           r == rollOver(p.m, ts, val, clock)
       IN [m |-> r.m, reqs |-> p.reqs, deltas |-> r.deltas, fan |-> r.fan,
           out |-> r.out]

\* ----------------------------------------------------------- getChunkByT0
\* the two scans of getChunkByT0; each returns a position, or -1 for nil
RECURSIVE scanNewer(_, _, _, _)
scanNewer(m, ts, guess, currentT0) ==
  IF At(m.Chunks, guess).T0 < currentT0
  THEN LET next == IF guess + 1 >= Len(m.Chunks) THEN 0 ELSE guess + 1 IN
       IF At(m.Chunks, next).T0 = ts THEN next
       ELSE scanNewer(m, ts, next, currentT0)
  ELSE -1

RECURSIVE scanOlder(_, _, _, _, _)
scanOlder(m, ts, guess, oldestT0, currentT0) ==
  IF At(m.Chunks, guess).T0 >= oldestT0 /\ At(m.Chunks, guess).T0 < currentT0
  THEN LET next == IF guess - 1 < 0 THEN guess - 1 + Len(m.Chunks) ELSE guess - 1 IN
       IF At(m.Chunks, next).T0 = ts THEN next
       ELSE scanOlder(m, ts, next, oldestT0, currentT0)
  ELSE -1

\* (mutant of checkNewer: the newer chunks are never scanned)
checkNewerNever(ts, c) == FALSE

\* whether the scan from the guess goes to the newer chunks
checkNewer(ts, c) == ts > c.T0

\* the position of the chunk getChunkByT0 returns, -1 when it returns nil
getChunkByT0(m, ts) ==
  IF Len(m.Chunks) = 0 THEN -1
  ELSE LET currentT0 == At(m.Chunks, m.CurrentChunkPos).T0 IN
  IF ts = currentT0 THEN m.CurrentChunkPos
  ELSE IF ts > currentT0 THEN -1
  ELSE IF Len(m.Chunks) = 1 THEN -1
  ELSE LET chunksAgo == (currentT0 - ts) \div ChunkSpan
           numChunks == Len(m.Chunks)
           oldestPos == IF m.CurrentChunkPos + 1 >= numChunks THEN 0
                        ELSE m.CurrentChunkPos + 1
           guess == IF chunksAgo >= (numChunks - 1) THEN oldestPos
                    ELSE IF m.CurrentChunkPos - chunksAgo < 0
                         THEN m.CurrentChunkPos - chunksAgo + numChunks
                         ELSE m.CurrentChunkPos - chunksAgo
           c == At(m.Chunks, guess)
       IN IF c.T0 = ts THEN guess
          ELSE IF checkNewer(ts, c) THEN scanNewer(m, ts, guess, currentT0)
          ELSE scanOlder(m, ts, guess, At(m.Chunks, oldestPos).T0, currentT0)

\* ----------------------------------------------------- SyncChunkSaveState
markSaved(chunk) == [chunk EXCEPT !.Saved = TRUE]

SyncChunkSaveState(m, ts) ==
  LET pos == getChunkByT0(m, ts) IN
  IF pos # -1
  THEN [m EXCEPT !.Chunks = SetAt(@, pos, markSaved(At(m.Chunks, pos)))]
  ELSE m

\* --------------------------------------------------------------------- GC
\* (mutant of gcDrop: an unsaved chunk is dropped too)
gcDropUnsaved(currentChunk, metricMinTs) == currentChunk.LastWrite < metricMinTs

\* the test under which GC tells its caller to drop the metric
gcDrop(currentChunk, metricMinTs) ==
  currentChunk.Saved /\ currentChunk.LastWrite < metricMinTs

GC(m, chunkMinTs, metricMinTs, primary, clock) ==
  LET currentChunk == getChunk(m, m.CurrentChunkPos) IN
  IF currentChunk = Nil THEN [m |-> m, reqs |-> <<>>, out |-> FALSE]
  ELSE IF currentChunk.LastWrite < chunkMinTs
  THEN IF gcDrop(currentChunk, metricMinTs)
       THEN [m |-> m, reqs |-> <<>>, out |-> TRUE]
       ELSE LET p == persist(m, m.CurrentChunkPos, primary, clock) IN
            [m |-> p.m, reqs |-> p.reqs, out |-> FALSE]
  ELSE [m |-> m, reqs |-> <<>>, out |-> FALSE]

\* ---------------------------------------------------------- GrowNumChunks
GrowNumChunks(m, numChunks) ==
  LET raised == [m EXCEPT !.NumChunks = numChunks] IN
  IF Len(raised.Chunks) < raised.NumChunks THEN raised
  ELSE LET len == Len(raised.Chunks)
           start == IF raised.CurrentChunkPos - 1 < 0
                    THEN raised.CurrentChunkPos - 1 + len
                    ELSE raised.CurrentChunkPos - 1
           orderdChunks == [i \in 1..len |->
                              At(raised.Chunks, (start + (i - 1)) % len)]
       IN [raised EXCEPT !.Chunks = orderdChunks, !.CurrentChunkPos = len - 1]

\* -------------------------------------------------------------------- Get
\* the loop tests of Get
fromIsAfter(from, oldestChunk) == from >= oldestChunk.T0 + ChunkSpan
toIsBefore(to, newestChunk) == to <= newestChunk.T0

\* the leading chunk Get hides: the partial first chunk, off the primary
masked(m, oldestChunk, primary) == ~primary /\ oldestChunk.T0 = m.firstChunkT0

\* "find the oldest chunk that from falls in": the position, or -1 at a nil chunk
RECURSIVE advanceOldest(_, _, _)
advanceOldest(m, from, oldestPos) ==
  IF getChunk(m, oldestPos) = Nil THEN -1
  ELSE IF fromIsAfter(from, getChunk(m, oldestPos))
  THEN advanceOldest(m, from,
                     IF oldestPos + 1 >= Len(m.Chunks) THEN 0 ELSE oldestPos + 1)
  ELSE oldestPos

\* "find the newest chunk that to falls in": the position, or -1 at a nil chunk
RECURSIVE retreatNewest(_, _, _)
retreatNewest(m, to, newestPos) ==
  IF getChunk(m, newestPos) = Nil THEN -1
  ELSE IF toIsBefore(to, getChunk(m, newestPos))
  THEN retreatNewest(m, to,
                     IF newestPos - 1 < 0 THEN newestPos - 1 + Len(m.Chunks)
                                          ELSE newestPos - 1)
  ELSE newestPos

\* the walk from oldestPos to newestPos collecting iterators; a nil chunk on
\* the way is dereferenced (chunk.Iter()) and the call panics
RECURSIVE emit(_, _, _, _)
emit(m, oldestPos, newestPos, iters) ==
  IF getChunk(m, oldestPos) = Nil THEN [iters |-> iters, out |-> "panic"]
  ELSE IF oldestPos # newestPos
  THEN emit(m, IF oldestPos + 1 >= m.NumChunks THEN 0 ELSE oldestPos + 1,
            newestPos, Append(iters, getChunk(m, oldestPos)))
  ELSE [iters |-> Append(iters, getChunk(m, oldestPos)), out |-> "ok"]

\* Get(from, to), from < to: the first return value, the chunks whose
\* iterators are returned, and "panic" when the call does not return
Get(m, from, to, primary) ==
  LET newestChunk == getChunk(m, m.CurrentChunkPos)
      empty(start) == [memStart |-> start, iters |-> <<>>, out |-> "ok"]
  IN
  IF newestChunk = Nil THEN empty(MaxInt32)
  ELSE IF from >= newestChunk.T0 + ChunkSpan THEN empty(MaxInt32)
  ELSE LET oldestPos0 == IF m.CurrentChunkPos + 1 >= Len(m.Chunks) THEN 0
                         ELSE m.CurrentChunkPos + 1
       IN
  IF getChunk(m, oldestPos0) = Nil THEN empty(MaxInt32)
  ELSE LET skip == masked(m, getChunk(m, oldestPos0), primary)
           oldestPos1 == IF skip
                         THEN (IF oldestPos0 + 1 >= Len(m.Chunks) THEN 0
                               ELSE oldestPos0 + 1)
                         ELSE oldestPos0
       IN
  IF getChunk(m, oldestPos1) = Nil THEN empty(MaxInt32)
  ELSE IF to <= getChunk(m, oldestPos1).T0 THEN empty(getChunk(m, oldestPos1).T0)
  ELSE LET oldestPos == advanceOldest(m, from, oldestPos1) IN
  IF oldestPos = -1 THEN empty(to)
  ELSE LET newestPos == retreatNewest(m, to, m.CurrentChunkPos) IN
  IF newestPos = -1 THEN empty(to)
  ELSE LET e == emit(m, oldestPos, newestPos, <<>>) IN
       [memStart |-> getChunk(m, oldestPos).T0, iters |-> e.iters, out |-> e.out]

\* ------------------------------------------------------------ the machine
\* store, aggregators and totalPoints hold what the most recent method call
\* sent out: the t0 of each request passed to store.Add (in call order), the
\* samples passed to each aggregator's Add, the deltas put on totalPoints.
\* store.prev is the t0 of the last request of the calls before it (0: none).
\* no method call is inside persist
Idle == [pc |-> "idle", ts |-> 0, val |-> 0, primary |-> FALSE, pending |-> <<>>]

Init ==
  /\ \E numChunks \in 2..MaxNumChunks : a = NewAggMetric(numChunks)
  /\ store = [prev |-> 0, reqs |-> <<>>]
  /\ aggregators = [i \in 1..NumAggs |-> <<>>]
  /\ totalPoints = <<>>
  /\ isPrimary \in BOOLEAN
  /\ now = 0
  /\ ret = [op |-> "NewAggMetric", out |-> "none"]
  /\ call = Idle
  /\ queue = <<>>
  /\ writer = 0

\* a panic aborts the process: nothing runs after it
Running == ret.out # "panic"

\* the store after a call that handed it reqs
handed(st, reqs) ==
  [prev |-> IF st.reqs = <<>> THEN st.prev ELSE st.reqs[Len(st.reqs)],
   reqs |-> reqs]

\* (mutant of addAggregators: only the first aggregator is reached)
addAggregatorsFirstOnly(ts, val) ==
  [i \in 1..NumAggs |-> IF i = 1 THEN <<<<ts, val>>>> ELSE <<>>]

\* addAggregators: the sample goes to every aggregator
addAggregators(ts, val) == [i \in 1..NumAggs |-> <<<<ts, val>>>>]
noAggregators == [i \in 1..NumAggs |-> <<>>]

DoAdd(ts, val) ==
  LET r == Add(a, ts, val, isPrimary, now) IN
  /\ Running
  /\ a' = r.m
  /\ store' = handed(store, r.reqs)
  /\ totalPoints' = r.deltas
  /\ aggregators' = IF r.fan THEN addAggregators(ts, val) ELSE noAggregators
  /\ ret' = [op |-> "Add", out |-> IF r.out = "panic" THEN "panic" ELSE "none"]
  /\ UNCHANGED <<isPrimary, now, call, queue, writer>>

DoGC(chunkMinTs, metricMinTs) ==
  LET r == GC(a, chunkMinTs, metricMinTs, isPrimary, now) IN
  /\ Running
  /\ a' = r.m
  /\ store' = handed(store, r.reqs)
  /\ totalPoints' = <<>>
  /\ aggregators' = noAggregators
  /\ ret' = [op |-> "GC", out |-> IF r.out THEN "true" ELSE "false"]
  /\ UNCHANGED <<isPrimary, now, call, queue, writer>>

DoSync(ts) ==
  /\ Running
  /\ a' = SyncChunkSaveState(a, ts)
  /\ store' = handed(store, <<>>)
  /\ totalPoints' = <<>>
  /\ aggregators' = noAggregators
  /\ ret' = [op |-> "SyncChunkSaveState", out |-> "none"]
  /\ UNCHANGED <<isPrimary, now, call, queue, writer>>

DoGrow(numChunks) ==
  /\ Running
  /\ a' = GrowNumChunks(a, numChunks)
  /\ store' = handed(store, <<>>)
  /\ totalPoints' = <<>>
  /\ aggregators' = noAggregators
  /\ ret' = [op |-> "GrowNumChunks", out |-> "none"]
  /\ UNCHANGED <<isPrimary, now, call, queue, writer>>

\* the cluster role may change at any time
RoleChange ==
  /\ Running
  /\ isPrimary' = ~isPrimary
  /\ UNCHANGED <<a, store, aggregators, totalPoints, now,
                 ret, call, queue, writer>>

\* the wall clock advances
Tick ==
  /\ Running
  /\ now < MaxNow
  /\ now' = now + 1
  /\ UNCHANGED <<a, store, aggregators, totalPoints, isPrimary,
                 ret, call, queue, writer>>

Next ==
  \/ \E ts \in TsSet : DoAdd(ts, ValOf(ts))
  \/ \E chunkMinTs \in GcArgs, metricMinTs \in GcArgs : DoGC(chunkMinTs, metricMinTs)
  \/ \E ts \in T0Set : DoSync(ts)
  \/ RoleChange
  \/ Tick

Spec == Init /\ [][Next]_vars

\* the ring reshaped at startup: the role is the one the node starts in and
\* the clock stands still
NextGrow ==
  \/ \E ts \in TsSet : DoAdd(ts, ValOf(ts))
  \/ \E chunkMinTs \in GcArgs, metricMinTs \in GcArgs : DoGC(chunkMinTs, metricMinTs)
  \/ \E ts \in T0Set : DoSync(ts)
  \/ \E numChunks \in 2..MaxGrow : numChunks > a.NumChunks /\ DoGrow(numChunks)

SpecGrow == Init /\ [][NextGrow]_vars

\* the ring given one more slot, on a node whose role may change
NextGrowOnce ==
  \/ \E ts \in TsSet : DoAdd(ts, ValOf(ts))
  \/ \E chunkMinTs \in GcArgs, metricMinTs \in GcArgs : DoGC(chunkMinTs, metricMinTs)
  \/ \E ts \in T0Set : DoSync(ts)
  \/ a.NumChunks <= MaxNumChunks /\ DoGrow(a.NumChunks + 1)
  \/ RoleChange

SpecGrowOnce == Init /\ [][NextGrowOnce]_vars

\* ------------------------------------------- Add against a full write queue
\* store.Add blocks while the write queue holds QueueCap requests.  Here the
\* rollover of Add is taken apart at that one suspension point: persist up to
\* its send loop, one step per store.Add, then the rest of Add.  The lock is
\* held throughout, so no other method of the AggMetric runs in between; the
\* store's writer and the cluster role do.

\* whether Add(ts) takes the rollover branch
AddRolls(m, ts) ==
  /\ getChunk(m, m.CurrentChunkPos) # Nil
  /\ ts - (ts % ChunkSpan) > getChunk(m, m.CurrentChunkPos).T0

\* (mutant of persistDone: Add goes on while requests are outstanding)
persistDoneAlways(c) == TRUE

\* the send loop of persist has run to its end
persistDone(c) == c.pending = <<>>

\* Add takes the rollover branch and enters persist: the current chunk is
\* finished and, on the primary, pending is built
AddPersist(ts, val) ==
  LET pos == a.CurrentChunkPos
      finished == SetAt(a.Chunks, pos, Finish(At(a.Chunks, pos), now))
  IN
  /\ Running
  /\ call.pc = "idle"
  /\ AddRolls(a, ts)
  /\ a' = [a EXCEPT !.Chunks = finished]
  /\ call' = [pc |-> "persist", ts |-> ts, val |-> val, primary |-> isPrimary,
              pending |-> IF mayWrite(isPrimary) THEN pendingOrder(finished, pos)
                          ELSE <<>>]
  /\ store' = handed(store, <<>>)
  /\ totalPoints' = <<>>
  /\ aggregators' = noAggregators
  /\ ret' = [op |-> "Add", out |-> "running"]
  /\ UNCHANGED <<isPrimary, now, queue, writer>>

\* one turn of the send loop: store.Add returns once the queue has room, then
\* the chunk is marked Saving
StoreAdd ==
  /\ call.pc = "persist"
  /\ ~persistDone(call)
  /\ Len(queue) < QueueCap
  /\ LET pos == Head(call.pending)
         t0 == At(a.Chunks, pos).T0
     IN /\ queue' = Append(queue, t0)
        /\ store' = [store EXCEPT !.reqs = Append(@, t0)]
        /\ a' = [a EXCEPT !.Chunks =
                   SetAt(@, pos, [At(a.Chunks, pos) EXCEPT !.Saving = TRUE])]
  /\ call' = [call EXCEPT !.pending = Tail(@)]
  /\ UNCHANGED <<aggregators, totalPoints, isPrimary, now, ret, writer>>

\* persist has returned: Add steps CurrentChunkPos, places the new chunk,
\* pushes the sample, calls addAggregators and returns
AddRoll ==
  LET r == rollOver(a, call.ts, call.val, now) IN
  /\ call.pc = "persist"
  /\ persistDone(call)
  /\ a' = r.m
  /\ totalPoints' = r.deltas
  /\ aggregators' = IF r.fan THEN addAggregators(call.ts, call.val)
                    ELSE noAggregators
  /\ ret' = [op |-> "Add", out |-> IF r.out = "panic" THEN "panic" ELSE "none"]
  /\ call' = Idle
  /\ UNCHANGED <<store, isPrimary, now, queue, writer>>

\* the store's writer takes the oldest request off the queue
StoreTake ==
  /\ queue # <<>>
  /\ queue' = Tail(queue)
  /\ UNCHANGED <<a, store, aggregators, totalPoints, isPrimary,
                 now, ret, call, writer>>

NextBlock ==
  \/ \E ts \in TsSet : call.pc = "idle" /\ ~AddRolls(a, ts) /\ DoAdd(ts, ValOf(ts))
  \/ \E ts \in TsSet : AddPersist(ts, ValOf(ts))
  \/ StoreAdd
  \/ AddRoll
  \/ StoreTake
  \/ \E ts \in T0Set : call.pc = "idle" /\ DoSync(ts)
  \/ RoleChange

SpecBlock == Init /\ [][NextBlock]_vars

\* ------------------------------------------------------------ properties
current == At(a.Chunks, a.CurrentChunkPos)
T0Of(ts) == ts - (ts % ChunkSpan)
InRing(m, t0) == \E i \in DOMAIN m.Chunks : m.Chunks[i].T0 = t0
Full(m) == Len(m.Chunks) = m.NumChunks
NonDecreasing(s) == \A i \in 1..(Len(s) - 1) : s[i] <= s[i + 1]
\* the t0 values met walking the full ring from the slot after
\* CurrentChunkPos round to CurrentChunkPos
RingWalk(m) ==
  [i \in 1..Len(m.Chunks) |-> At(m.Chunks, (m.CurrentChunkPos + i) % m.NumChunks).T0]
\* the moments queries are made for
QueryTs ==
  {0} \cup {t0 + off : t0 \in T0Set \cup {(MaxSpans + 1) * ChunkSpan}, off \in {0, 30, 50}}

\* C1: the t0 values of the requests passed to store.Add, over all calls, never
\* decrease: those of one call are in non-decreasing order and start no lower
\* than the last request of the calls before.
C1_PersistOrder == NonDecreasing(<<store.prev>> \o store.reqs)

\* C1 witness: a catch-up persist handed over two chunks after an earlier request.
C1_Witness == store.prev > 0 /\ Len(store.reqs) >= 2 /\ store.reqs[1] < store.reqs[2]

\* C2 (as claimed): every sample held by a chunk of the ring lies in the chunk
\* of its t0 and, unless that chunk is the leading partial chunk on a
\* non-primary node, Get(ts, ts+1) returns the iterator of that chunk, which
\* yields the sample.  Holds over Add, GC, SyncChunkSaveState, role changes and
\* the clock (Spec); fails once GrowNumChunks has run on a wrapped ring.
C2_RoundTrip ==
  \A i \in DOMAIN a.Chunks :
    \A k \in DOMAIN a.Chunks[i].Points :
      LET chunk == a.Chunks[i]
          ts == chunk.Points[k][1]
          g == Get(a, ts, ts + 1, isPrimary)
      IN /\ T0Of(ts) = chunk.T0
         /\ ~(~isPrimary /\ chunk.T0 = a.firstChunkT0) =>
              /\ g.out = "ok"
              /\ \E j \in DOMAIN g.iters :
                    /\ g.iters[j].T0 = chunk.T0
                    /\ \E p \in DOMAIN g.iters[j].Points :
                          g.iters[j].Points[p] = chunk.Points[k]

\* C3 (as claimed): off the primary, Get never returns the iterator of the chunk
\* whose t0 is firstChunkT0, and when that chunk is the only one Get returns
\* (MaxInt32, empty).
C3_SecondaryMasking ==
  ~isPrimary =>
    \A from \in QueryTs, to \in QueryTs :
      from < to =>
        LET g == Get(a, from, to, isPrimary) IN
        /\ \A j \in DOMAIN g.iters : g.iters[j].T0 # a.firstChunkT0
        /\ (Len(a.Chunks) = 1 /\ a.Chunks[1].T0 = a.firstChunkT0) =>
              (g.memStart = MaxInt32 /\ g.iters = <<>>)

\* C4: an Add whose t0 is older than the current chunk's, or equal to it while
\* the current chunk is saved, changes nothing of the AggMetric, hands nothing
\* to the store and reaches no aggregator.
C4_RejectedAddIsNoOp ==
  [][\A ts \in TsSet :
       (/\ ret'.op = "Add"
        /\ Len(a.Chunks) > 0
        /\ \/ T0Of(ts) < current.T0
           \/ T0Of(ts) = current.T0 /\ current.Saved
        /\ DoAdd(ts, ValOf(ts)))
       => (/\ a' = a
           /\ store'.reqs = <<>>
           /\ totalPoints' = <<>>
           /\ \A i \in DOMAIN aggregators' : aggregators'[i] = <<>>)]_vars

\* C4 witness: the last call was an Add that reached no aggregator, and the
\* current chunk is saved.
C4_Witness ==
  /\ ret.op = "Add" /\ Len(a.Chunks) > 0 /\ current.Saved
  /\ \A i \in DOMAIN aggregators : aggregators[i] = <<>>

\* C5 (as claimed): over a full ring the walk from the slot after
\* CurrentChunkPos yields t0 values that increase by exactly ChunkSpan.
C5_RingSpacedBySpan ==
  Full(a) => \A i \in 1..(Len(a.Chunks) - 1) :
               RingWalk(a)[i + 1] - RingWalk(a)[i] = ChunkSpan

\* C5 (amended): over a full ring the walk yields strictly increasing t0
\* values whose consecutive differences are positive multiples of ChunkSpan.
C5_RingIncreasing ==
  Full(a) => \A i \in 1..(Len(a.Chunks) - 1) :
               /\ RingWalk(a)[i] < RingWalk(a)[i + 1]
               /\ (RingWalk(a)[i + 1] - RingWalk(a)[i]) % ChunkSpan = 0

\* C5 witness: a full ring that has wrapped and skips a span.
C5_Witness ==
  /\ Full(a) /\ a.CurrentChunkPos = 0 /\ ret.op = "Add"
  /\ RingWalk(a)[1] + ChunkSpan < RingWalk(a)[2]

\* C6 (as claimed): SyncChunkSaveState(t0) sets Saved on the chunk of the ring
\* whose t0 is the argument and changes nothing else (no chunk at all when none
\* has that t0); nothing is handed to the store; a second call with the same
\* t0 leaves the state as it is.  Holds over Add, GC, SyncChunkSaveState, role
\* changes and the clock (Spec); fails once GrowNumChunks has run on a wrapped
\* ring, where the lookup misses chunks that are in the ring.
C6_SyncMarksOnlyThatChunk ==
  [][\A ts \in T0Set :
       (ret'.op = "SyncChunkSaveState" /\ DoSync(ts))
       => (/\ a'.Chunks = [i \in DOMAIN a.Chunks |->
                             IF a.Chunks[i].T0 = ts
                             THEN [a.Chunks[i] EXCEPT !.Saved = TRUE]
                             ELSE a.Chunks[i]]
           /\ a'.CurrentChunkPos = a.CurrentChunkPos
           /\ a'.NumChunks = a.NumChunks
           /\ a'.firstChunkT0 = a.firstChunkT0
           /\ store'.reqs = <<>>
           /\ SyncChunkSaveState(a', ts) = a')]_vars

\* C7 (as claimed): GrowNumChunks(n), n above the old cap, on a full ring leaves
\* the chunks in increasing t0 order with CurrentChunkPos on the last one, and
\* the cap is n.
C7_GrowRelaysRing ==
  [][\A n \in 2..MaxGrow :
       (ret'.op = "GrowNumChunks" /\ n > a.NumChunks /\ Full(a) /\ DoGrow(n))
       => (/\ \A i \in 1..(Len(a'.Chunks) - 1) :
                 a'.Chunks[i].T0 < a'.Chunks[i + 1].T0
           /\ a'.CurrentChunkPos = Len(a'.Chunks) - 1
           /\ a'.NumChunks = n)]_vars

\* the ring after add(60), add(120): two chunks of one point each
AfterTwoAdds(m) ==
  /\ m.NumChunks = 2 /\ Len(m.Chunks) = 2 /\ m.CurrentChunkPos = 1
  /\ m.firstChunkT0 = 60
  /\ At(m.Chunks, 0).T0 = 60 /\ At(m.Chunks, 0).LastTs = 60
  /\ At(m.Chunks, 0).NumPoints = 1
  /\ At(m.Chunks, 1).T0 = 120 /\ At(m.Chunks, 1).LastTs = 120
  /\ At(m.Chunks, 1).NumPoints = 1

\* the ring after add(60), add(120), add(180): the current chunk holds 180
\* alone, the other chunk is that of 120
AfterThreeAdds(m) ==
  /\ m.NumChunks = 2 /\ Len(m.Chunks) = 2
  /\ m.firstChunkT0 = 60
  /\ At(m.Chunks, m.CurrentChunkPos).T0 = 180
  /\ At(m.Chunks, m.CurrentChunkPos).LastTs = 180
  /\ InRing(m, 120)
  /\ \A i \in DOMAIN m.Chunks : m.Chunks[i].NumPoints = 1

\* C8 (as claimed): with NumChunks = 2, in add(60); add(120); add(180); add(240)
\* the chunk of t0 60 is still in the ring after the third add; the fourth
\* add puts -1 on totalPoints and Get(0, 300) then starts at 120.
C8_OverwriteAtFourthAdd ==
  [][/\ (ret'.op = "Add" /\ AfterTwoAdds(a) /\ DoAdd(180, ValOf(180)))
        => InRing(a', 60)
     /\ (ret'.op = "Add" /\ AfterThreeAdds(a) /\ DoAdd(240, ValOf(240)))
        => (totalPoints' = <<-1>> /\ Get(a', 0, 300, isPrimary).memStart = 120)]_vars

\* C8 (amended): the chunk of t0 60 is overwritten by the third add, which
\* puts -1 on totalPoints, and Get(0, 300) then starts at 120; the fourth add
\* overwrites the chunk of t0 120, puts -1 on totalPoints, and Get(0, 300)
\* then starts at 180.
C8_OverwriteAtThirdAdd ==
  [][/\ (ret'.op = "Add" /\ AfterTwoAdds(a) /\ DoAdd(180, ValOf(180)))
        => (/\ ~InRing(a', 60) /\ InRing(a', 120) /\ InRing(a', 180)
            /\ totalPoints' = <<-1>>
            /\ Get(a', 0, 300, isPrimary).memStart = 120)
     /\ (ret'.op = "Add" /\ AfterThreeAdds(a) /\ DoAdd(240, ValOf(240)))
        => (/\ ~InRing(a', 120) /\ InRing(a', 180) /\ InRing(a', 240)
            /\ totalPoints' = <<-1>>
            /\ Get(a', 0, 300, isPrimary).memStart = 180)]_vars

\* C8 witness: the state after the fourth add of the sequence.
C8_Witness ==
  /\ ret.op = "Add" /\ a.NumChunks = 2 /\ a.firstChunkT0 = 60
  /\ totalPoints = <<-1>>
  /\ Len(a.Chunks) = 2 /\ a.CurrentChunkPos = 1
  /\ At(a.Chunks, 0).T0 = 180 /\ At(a.Chunks, 1).T0 = 240
  /\ At(a.Chunks, 0).NumPoints = 1 /\ At(a.Chunks, 1).NumPoints = 1

\* the t0 of the chunks of the ring marked Saving
SavingT0s(m) == {m.Chunks[i].T0 : i \in {j \in DOMAIN m.Chunks : m.Chunks[j].Saving}}

\* C9: while the node is not primary no call hands a request to the store and
\* no Saving flag is set; a persist that runs then (at a rollover, or from a GC
\* that finds the current chunk idle) still finishes its chunk.
C9_SecondaryNeverWrites ==
  [][~isPrimary =>
       /\ (store' = store \/ store'.reqs = <<>>)
       /\ SavingT0s(a') \subseteq SavingT0s(a)
       /\ \A ts \in TsSet :
            (ret'.op = "Add" /\ Len(a.Chunks) > 0 /\ T0Of(ts) > current.T0
             /\ DoAdd(ts, ValOf(ts)))
            => At(a'.Chunks, a.CurrentChunkPos).Finished
       /\ \A chunkMinTs \in GcArgs, metricMinTs \in GcArgs :
            (ret'.op = "GC" /\ Len(a.Chunks) > 0
             /\ current.LastWrite < chunkMinTs
             /\ ~(current.Saved /\ current.LastWrite < metricMinTs)
             /\ DoGC(chunkMinTs, metricMinTs))
            => At(a'.Chunks, a.CurrentChunkPos).Finished]_vars

\* C9 witness: off the primary, a GC has just finished the idle current chunk
\* without handing it over.
C9_Witness ==
  /\ ~isPrimary /\ ret.op = "GC" /\ Len(a.Chunks) > 0
  /\ current.Finished /\ ~current.Saving /\ ~current.Saved
  /\ store.reqs = <<>> /\ store.prev = 0

\* C10: GC returns true exactly when the buffer is not empty and the current
\* chunk is saved and was last written before both chunkMinTs and metricMinTs;
\* on an empty buffer it returns false and changes nothing.
C10_GcReturn ==
  [][\A chunkMinTs \in GcArgs, metricMinTs \in GcArgs :
       (ret'.op = "GC" /\ DoGC(chunkMinTs, metricMinTs))
       => (/\ ret'.out \in {"true", "false"}
           /\ (ret'.out = "true") <=>
                 (/\ Len(a.Chunks) > 0
                  /\ current.Saved
                  /\ current.LastWrite < chunkMinTs
                  /\ current.LastWrite < metricMinTs)
           /\ Len(a.Chunks) = 0 => (a' = a /\ store'.reqs = <<>>))]_vars

\* C10 witness: a GC has just told its caller to drop the metric.
C10_Witness == ret.op = "GC" /\ ret.out = "true" /\ Len(a.Chunks) > 0 /\ current.Saved

\* the chunks of the ring Get may serve: all of them on the primary, all but
\* the one whose t0 is firstChunkT0 elsewhere
Unmasked(m, primary) ==
  {i \in DOMAIN m.Chunks : primary \/ m.Chunks[i].T0 # m.firstChunkT0}
OldestT0(m, among) ==
  CHOOSE t \in {m.Chunks[i].T0 : i \in among} :
    \A i \in among : t <= m.Chunks[i].T0
NewestT0(m) ==
  CHOOSE t \in {m.Chunks[i].T0 : i \in DOMAIN m.Chunks} :
    \A i \in DOMAIN m.Chunks : t >= m.Chunks[i].T0

\* C11 (as claimed): whenever Get(from, to), from < to, returns iterators, it
\* returns normally, the chunks behind them are in strictly increasing t0
\* order (so none is returned twice), and the first return value is the t0 of
\* the first of them.
C11_GetOrdered ==
  \A from \in QueryTs, to \in QueryTs :
    from < to =>
      LET g == Get(a, from, to, isPrimary) IN
      (g.iters # <<>> \/ g.out # "ok") =>
        /\ g.out = "ok"
        /\ \A j \in 1..(Len(g.iters) - 1) : g.iters[j].T0 < g.iters[j + 1].T0
        /\ g.memStart = g.iters[1].T0

\* C12 (as claimed): Get(from, to), from < to, returns (MaxInt32, empty) when
\* the buffer is empty or from is at or past the end of the newest chunk, and
\* otherwise (t0, empty) when to is at or before the t0 of the oldest chunk it
\* may serve.  Holds over Add, GC, SyncChunkSaveState, role changes and the
\* clock (Spec); fails once GrowNumChunks has run on a wrapped ring.
C12_EmptyAnswers ==
  \A from \in QueryTs, to \in QueryTs :
    from < to =>
      LET g == Get(a, from, to, isPrimary) IN
      IF Len(a.Chunks) = 0 \/ from >= NewestT0(a) + ChunkSpan
      THEN g.out = "ok" /\ g.iters = <<>> /\ g.memStart = MaxInt32
      ELSE (Unmasked(a, isPrimary) # {}
            /\ to <= OldestT0(a, Unmasked(a, isPrimary)))
           => (/\ g.out = "ok" /\ g.iters = <<>>
               /\ g.memStart = OldestT0(a, Unmasked(a, isPrimary)))

\* C13: an Add that stores its sample passes exactly that sample, once, to
\* every aggregator; an Add that drops its sample, and every other call,
\* passes nothing to any aggregator.
C13_FanOut ==
  [][/\ \A ts \in TsSet :
          (ret'.op = "Add" /\ DoAdd(ts, ValOf(ts))) =>
            IF a' # a
            THEN /\ LET pts == At(a'.Chunks, a'.CurrentChunkPos).Points
                    IN pts # <<>> /\ pts[Len(pts)] = <<ts, ValOf(ts)>>
                 /\ \A i \in 1..NumAggs : aggregators'[i] = <<<<ts, ValOf(ts)>>>>
            ELSE \A i \in 1..NumAggs : aggregators'[i] = <<>>
     /\ ret'.op # "Add" => \A i \in 1..NumAggs : aggregators'[i] = <<>>]_vars

\* C13 witness: a rollover Add onto a wrapped ring has just passed its sample
\* to both aggregators.
C13_Witness ==
  /\ ret.op = "Add" /\ Full(a) /\ a.CurrentChunkPos = 0 /\ totalPoints # <<>>
  /\ \A i \in 1..NumAggs : aggregators[i] = <<current.Points[1]>>

\* the position k steps behind pos, with wrap
Behind(m, pos, k) == (pos + Len(m.Chunks) - k) % Len(m.Chunks)
\* how many chunks behind pos are older than it and neither saved nor saving,
\* counted up to the first that is not
CatchUp(m, pos) ==
  CHOOSE n \in 0..(Len(m.Chunks) - 1) :
    /\ \A j \in 1..n :
          LET c == At(m.Chunks, Behind(m, pos, j)) IN
          c.T0 < At(m.Chunks, pos).T0 /\ ~c.Saved /\ ~c.Saving
    /\ n + 1 <= Len(m.Chunks) - 1 =>
          LET c == At(m.Chunks, Behind(m, pos, n + 1)) IN
          ~(c.T0 < At(m.Chunks, pos).T0 /\ ~c.Saved /\ ~c.Saving)
\* the requests a persist(pos) on the primary has to make, in order
Expected(m, pos) ==
  [k \in 1..(CatchUp(m, pos) + 1) |->
     At(m.Chunks, Behind(m, pos, CatchUp(m, pos) + 1 - k)).T0]
\* whether a GC runs persist(CurrentChunkPos)
GcPersists(m, chunkMinTs, metricMinTs) ==
  /\ Len(m.Chunks) > 0
  /\ At(m.Chunks, m.CurrentChunkPos).LastWrite < chunkMinTs
  /\ ~(At(m.Chunks, m.CurrentChunkPos).Saved
        /\ At(m.Chunks, m.CurrentChunkPos).LastWrite < metricMinTs)

\* C15 (as claimed): a persist(pos) on the primary hands to the store chunk pos
\* and exactly the chunks behind it that are older and neither saved nor
\* saving, up to the first that is not, oldest t0 first, and sets Saving on
\* each of them (a rollover may then overwrite the oldest).  Holds over Add,
\* GC, SyncChunkSaveState, role changes and the clock (Spec); fails once
\* GrowNumChunks has run on a wrapped ring.
C15_CatchUp ==
  [][isPrimary =>
       /\ \A ts \in TsSet :
            (ret'.op = "Add" /\ AddRolls(a, ts) /\ DoAdd(ts, ValOf(ts))) =>
              /\ store'.reqs = Expected(a, a.CurrentChunkPos)
              /\ NonDecreasing(store'.reqs)
              /\ \A k \in 0..CatchUp(a, a.CurrentChunkPos) :
                    LET pos == Behind(a, a.CurrentChunkPos, k) IN
                    pos # a'.CurrentChunkPos => At(a'.Chunks, pos).Saving
       /\ \A chunkMinTs \in GcArgs, metricMinTs \in GcArgs :
            (ret'.op = "GC" /\ GcPersists(a, chunkMinTs, metricMinTs)
             /\ DoGC(chunkMinTs, metricMinTs)) =>
              /\ store'.reqs = Expected(a, a.CurrentChunkPos)
              /\ NonDecreasing(store'.reqs)
              /\ \A i \in DOMAIN a.Chunks :
                    a'.Chunks[i].Saving =
                      (a.Chunks[i].Saving
                       \/ \E k \in 0..CatchUp(a, a.CurrentChunkPos) :
                             i = Behind(a, a.CurrentChunkPos, k) + 1)]_vars

\* C15 witness: the node has become primary after rolling over as a
\* secondary, and its first persist has handed over two chunks.
C15_Witness ==
  /\ isPrimary /\ store.prev = 0 /\ Len(store.reqs) = 2
  /\ store.reqs[1] < store.reqs[2]

\* C16 (as claimed): a chunk on which Finish was called gets no more points
\* for as long as it stays in the ring.
C16_FinishedImmutable ==
  [][\A i \in DOMAIN a.Chunks :
       (a.Chunks[i].Finished /\ a'.Chunks[i].T0 = a.Chunks[i].T0)
       => a'.Chunks[i].Points = a.Chunks[i].Points]_vars

\* C17 (as claimed): no call hands to the store a chunk whose Saving or Saved
\* flag is set.
C17_HandedOnce ==
  [][(isPrimary' = isPrimary /\ now' = now) =>
       \A k \in DOMAIN store'.reqs :
         \A i \in DOMAIN a.Chunks :
           a.Chunks[i].T0 = store'.reqs[k]
           => (~a.Chunks[i].Saving /\ ~a.Chunks[i].Saved)]_vars

\* C18 (as claimed): every chunk of the ring that is Saved is Finished.
C18_SavedIsFinished ==
  \A i \in DOMAIN a.Chunks : a.Chunks[i].Saved => a.Chunks[i].Finished

\* the shape C19 asks of a non-empty buffer
CurrentIsNewest(m) ==
  /\ 0 <= m.CurrentChunkPos /\ m.CurrentChunkPos < Len(m.Chunks)
  /\ Len(m.Chunks) <= m.NumChunks
  /\ \A i \in DOMAIN m.Chunks :
        i # m.CurrentChunkPos + 1 =>
          /\ m.Chunks[i].T0 < At(m.Chunks, m.CurrentChunkPos).T0
          /\ m.Chunks[i].Finished

\* C19 (as claimed): once the buffer is not empty, CurrentChunkPos is a
\* position of the ring, the ring is no longer than NumChunks, the chunk at
\* CurrentChunkPos has the largest t0, every other chunk is finished, and an
\* Add that stores its sample stores it in the chunk at CurrentChunkPos.
C19_CurrentIsNewest ==
  [][/\ Len(a'.Chunks) > 0 => CurrentIsNewest(a')
     /\ \A ts \in TsSet :
          (ret'.op = "Add" /\ DoAdd(ts, ValOf(ts)) /\ a' # a) =>
            /\ LET pts == At(a'.Chunks, a'.CurrentChunkPos).Points
               IN pts # <<>> /\ pts[Len(pts)] = <<ts, ValOf(ts)>>
            /\ At(a'.Chunks, a'.CurrentChunkPos).T0 = T0Of(ts)]_vars

\* what C20 says of a GC that finds the current chunk idle and does not tell
\* its caller to drop the metric, but for the Saving flag
GcPersistFrame ==
  /\ ret'.out = "false"
  /\ a'.CurrentChunkPos = a.CurrentChunkPos
  /\ a'.NumChunks = a.NumChunks
  /\ a'.firstChunkT0 = a.firstChunkT0
  /\ Len(a'.Chunks) = Len(a.Chunks)
  /\ \A i \in DOMAIN a.Chunks :
        /\ a'.Chunks[i].T0 = a.Chunks[i].T0
        /\ a'.Chunks[i].Points = a.Chunks[i].Points
  /\ At(a'.Chunks, a'.CurrentChunkPos).Finished

\* C20 (as claimed): such a GC returns false, leaves CurrentChunkPos and the
\* chunks of the ring as they are, finishes the current chunk, and the current
\* chunk is marked Saving afterwards.
C20_GcPersistSaving ==
  [][\A chunkMinTs \in GcArgs, metricMinTs \in GcArgs :
       (ret'.op = "GC" /\ GcPersists(a, chunkMinTs, metricMinTs)
        /\ DoGC(chunkMinTs, metricMinTs))
       => (GcPersistFrame /\ At(a'.Chunks, a'.CurrentChunkPos).Saving)]_vars

\* C20 (amended): such a GC returns false, leaves CurrentChunkPos and the
\* chunks of the ring as they are and finishes the current chunk; on the
\* primary the current chunk is marked Saving afterwards, elsewhere its
\* Saving flag is as it was.
C20_GcPersistSavingOnPrimary ==
  [][\A chunkMinTs \in GcArgs, metricMinTs \in GcArgs :
       (ret'.op = "GC" /\ GcPersists(a, chunkMinTs, metricMinTs)
        /\ DoGC(chunkMinTs, metricMinTs))
       => (/\ GcPersistFrame
           /\ At(a'.Chunks, a'.CurrentChunkPos).Saving =
                 (isPrimary \/ current.Saving))]_vars

\* C20 witness: on the primary a GC has just finished the idle current chunk
\* of a ring of two and handed it to the store.
C20_Witness ==
  /\ isPrimary /\ ret.op = "GC" /\ ret.out = "false" /\ Len(a.Chunks) = 2
  /\ current.Finished /\ current.Saving /\ ~current.Saved
  /\ store.reqs # <<>> /\ store.reqs[Len(store.reqs)] = current.T0

\* the ring as C14 looks at it: where the current chunk is, which chunks
\* there are and what they hold
RingOf(m) ==
  [pos |-> m.CurrentChunkPos,
   chunks |-> [i \in DOMAIN m.Chunks |-> <<m.Chunks[i].T0, m.Chunks[i].Points>>]]

\* C14: in a rollover Add, while a store.Add of persist is outstanding the
\* call does not return, CurrentChunkPos does not move, no chunk is created,
\* no sample is pushed and no aggregator is called; while that store.Add is
\* blocked on a full queue nothing of the AggMetric changes at all; and when
\* the rest of the rollover runs on what was the primary at persist, the
\* last request made is the chunk that was current, and every chunk
\* requested is marked Saving.
C14_Backpressure ==
  [][/\ (call.pc = "persist" /\ call.pending # <<>>) =>
          /\ call'.pc = "persist"
          /\ ret'.out = "running"
          /\ RingOf(a') = RingOf(a)
          /\ aggregators' = noAggregators
          /\ totalPoints' = <<>>
          /\ Len(queue) = QueueCap => (a' = a /\ call' = call /\ store' = store)
     /\ (call.pc = "persist" /\ call'.pc = "idle") =>
          /\ call.pending = <<>>
          /\ call.primary =>
                /\ store.reqs # <<>>
                /\ store.reqs[Len(store.reqs)] = current.T0
                /\ \A k \in DOMAIN store.reqs :
                      \E i \in DOMAIN a.Chunks :
                        a.Chunks[i].T0 = store.reqs[k] /\ a.Chunks[i].Saving
          /\ a'.CurrentChunkPos # a.CurrentChunkPos
          /\ \A i \in 1..NumAggs : aggregators'[i] = <<<<call.ts, call.val>>>>]_vars

\* C14 witness: a rollover on the primary has handed over a catch-up chunk
\* and is blocked, on a full queue, on the request for the current chunk.
C14_Witness ==
  /\ call.pc = "persist" /\ call.primary /\ Len(call.pending) = 1
  /\ Len(queue) = QueueCap /\ Len(store.reqs) = 1
  /\ a.CurrentChunkPos = 1 /\ Len(a.Chunks) = 2

\* ------------------------------------------------ an idle series under gc
\* The series is fed while the clock reads 0 and receives no add afterwards.
\* The node is primary.  The gc caller passes thresholds that trail the clock:
\* chunkMinTs = now - ChunkMaxStale, metricMinTs = now - MetricMaxStale, with
\* MetricMaxStale >= ChunkMaxStale.  The store's writer acknowledges the
\* chunks it was handed, in any order.

ChunkMaxStale == 1
MetricMaxStale == 2

\* GC compares LastWrite only with thresholds that trail the clock, so a clock
\* reading above Horizon is indistinguishable from Horizon with every
\* LastWrite one second older; a LastWrite of 0 at Horizon is below both
\* thresholds and stays so.
Horizon == MetricMaxStale + 1

\* the caller of GC removes the series once GC has returned true
Dropped == ret.op = "GC" /\ ret.out = "true"

older(c) == [c EXCEPT !.LastWrite = IF @ > 0 THEN @ - 1 ELSE 0]

IdleAdd(ts, val) ==
  /\ now = 0
  /\ DoAdd(ts, val)

IdleTick ==
  /\ Running
  /\ ~Dropped
  /\ getChunk(a, a.CurrentChunkPos) # Nil
  /\ IF now < Horizon
       THEN now' = now + 1 /\ a' = a
       ELSE now' = now /\ a' = [a EXCEPT !.Chunks = [i \in DOMAIN @ |-> older(@[i])]]
  /\ UNCHANGED <<store, aggregators, totalPoints, isPrimary, ret,
                 call, queue, writer>>

IdleGC ==
  /\ ~Dropped
  /\ now >= MetricMaxStale
  /\ DoGC(now - ChunkMaxStale, now - MetricMaxStale)

\* the writer acknowledges a chunk it was handed and has not acknowledged yet
IdleSync ==
  \E ts \in T0Set :
    /\ ~Dropped
    /\ \E i \in DOMAIN a.Chunks :
         a.Chunks[i].T0 = ts /\ a.Chunks[i].Saving /\ ~a.Chunks[i].Saved
    /\ DoSync(ts)

NextIdle ==
  \/ \E ts \in TsSet : IdleAdd(ts, ValOf(ts))
  \/ IdleTick
  \/ IdleGC
  \/ IdleSync

\* time advances, gc is invoked again and again, every handed chunk is
\* acknowledged
InitIdle == Init /\ isPrimary = TRUE

SpecIdle ==
  /\ InitIdle
  /\ [][NextIdle]_vars
  /\ WF_vars(IdleTick) /\ WF_vars(IdleGC) /\ WF_vars(IdleSync)

\* C21: once the series has gone idle (it has data and the clock has moved on
\* with no further add), some gc call eventually returns true
C21_EventualDrop == (now > 0) ~> Dropped

\* ------------------------------------------- getChunkByT0 against a scan
\* rings of up to MaxLookupChunks slots fed over LookupSpans spans, so that a
\* wrapped ring of three slots can hold t0 values that skip a span
MaxLookupChunks == 3
LookupSpans == 5
LookupT0s == {k * ChunkSpan : k \in 1..LookupSpans}
LookupAdds == {t0 + off : t0 \in LookupT0s, off \in {0, 40}}
\* the ts looked up: every t0 fed, the one before and the one after them, and
\* moments off the span boundary
LookupTs ==
  {t0 + off : t0 \in LookupT0s \cup {0, (LookupSpans + 1) * ChunkSpan}, off \in {0, 40}}

InitLookup ==
  /\ \E numChunks \in 2..MaxLookupChunks : a = NewAggMetric(numChunks)
  /\ store = [prev |-> 0, reqs |-> <<>>]
  /\ aggregators = [i \in 1..NumAggs |-> <<>>]
  /\ totalPoints = <<>>
  /\ isPrimary \in BOOLEAN
  /\ now = 0
  /\ ret = [op |-> "NewAggMetric", out |-> "none"]
  /\ call = Idle
  /\ queue = <<>>
  /\ writer = 0

NextLookup ==
  \/ \E ts \in LookupAdds : DoAdd(ts, ValOf(ts))
  \/ \E ts \in LookupT0s : DoSync(ts)

SpecLookup == InitLookup /\ [][NextLookup]_vars

\* C22: in every ring reachable by add, for every ts, getChunkByT0(ts) returns
\* the chunk of the ring whose T0 is ts when there is one and nil otherwise
C22_LookupIsLinearScan ==
  \A ts \in LookupTs :
    LET pos == getChunkByT0(a, ts) IN
    IF InRing(a, ts)
    THEN pos # -1 /\ At(a.Chunks, pos).T0 = ts
    ELSE pos = -1

\* a wrapped ring of three slots whose t0 values skip a span, in which the
\* chunk looked up is neither the current one nor where the guess lands
C22_Witness ==
  /\ Len(a.Chunks) = 3
  /\ ~InRing(a, a.firstChunkT0)
  /\ \E i \in 1..2 : RingWalk(a)[i] + ChunkSpan < RingWalk(a)[i + 1]
  /\ \E ts \in LookupT0s :
       /\ InRing(a, ts)
       /\ ts # current.T0
       /\ (current.T0 - ts) \div ChunkSpan >= 2
       /\ At(a.Chunks, (a.CurrentChunkPos + 1) % 3).T0 # ts
       /\ At(a.Chunks, getChunkByT0(a, ts)).T0 = ts

\* --------------------------------------- eviction of chunks on a primary
\* the store's writer acknowledges only what it was handed: a chunk of the
\* ring whose t0 was passed to store.Add has Saving set
AckSync(ts) ==
  /\ \E i \in DOMAIN a.Chunks : a.Chunks[i].T0 = ts /\ a.Chunks[i].Saving
  /\ DoSync(ts)

NextAck ==
  \/ \E ts \in TsSet : DoAdd(ts, ValOf(ts))
  \/ \E chunkMinTs \in GcArgs, metricMinTs \in GcArgs : DoGC(chunkMinTs, metricMinTs)
  \/ \E ts \in T0Set : AckSync(ts)
  \/ RoleChange

\* rings of up to MaxLookupChunks slots, never grown
SpecAck == InitLookup /\ [][NextAck]_vars

\* the ring given one more slot by GrowNumChunks

NextAckGrow ==
  \/ NextAck
  \/ a.NumChunks <= MaxNumChunks /\ DoGrow(a.NumChunks + 1)

SpecAckGrow == Init /\ [][NextAckGrow]_vars

\* the chunk the rollover of Add(ts) puts the new chunk over; Nil when Add(ts)
\* does not roll over or appends
Overwritten(m, ts) ==
  IF AddRolls(m, ts) /\ ~ringHasRoom(m)
  THEN getChunk(m, advancePos(m.CurrentChunkPos, m.NumChunks))
  ELSE Nil

\* C23: when a rollover on the primary puts the new chunk over a chunk, that
\* chunk was handed to the store before: it had Saving or Saved set, or it is
\* among the requests the persist of this very rollover passed to store.Add
C23_NoUnpersistedEviction ==
  [][\A ts \in TsSet :
       (/\ ret'.op = "Add"
        /\ isPrimary
        /\ Overwritten(a, ts) # Nil
        /\ DoAdd(ts, ValOf(ts)))
       => LET victim == Overwritten(a, ts) IN
          \/ victim.Saving
          \/ victim.Saved
          \/ \E k \in DOMAIN store'.reqs : store'.reqs[k] = victim.T0]_vars

\* C24: in every state reachable by accepted adds, for every from < to, Get
\* returns: no walk of it reaches a slot that holds no chunk
C24_GetReturns ==
  \A from \in LookupTs, to \in LookupTs :
    from < to => Get(a, from, to, isPrimary).out # "panic"

\* ------------------------------------------ the handoff and its writer
\* The store's writer is one thread: it takes the oldest request off the
\* bounded write queue, makes the chunk durable and acknowledges it by calling
\* SyncChunkSaveState(t0), which waits for the AggMetric's lock.  writer is 0
\* while the writer waits on the queue, else the t0 it is acknowledging.
\* Add holds the lock from AddPersist to AddRoll (call.pc = "persist").

WriterTake ==
  /\ writer = 0
  /\ queue # <<>>
  /\ writer' = Head(queue)
  /\ queue' = Tail(queue)
  /\ UNCHANGED <<a, store, aggregators, totalPoints, isPrimary, now, ret, call>>

\* SyncChunkSaveState(t0) called by the writer: it takes the lock first
WriterAck ==
  /\ writer # 0
  /\ call.pc = "idle"
  /\ a' = SyncChunkSaveState(a, writer)
  /\ store' = handed(store, <<>>)
  /\ totalPoints' = <<>>
  /\ aggregators' = noAggregators
  /\ ret' = [op |-> "SyncChunkSaveState", out |-> "none"]
  /\ writer' = 0
  /\ UNCHANGED <<isPrimary, now, call, queue>>

NextHandoff ==
  \/ \E ts \in TsSet : call.pc = "idle" /\ ~AddRolls(a, ts) /\ DoAdd(ts, ValOf(ts))
  \/ \E ts \in TsSet : AddPersist(ts, ValOf(ts))
  \/ StoreAdd
  \/ AddRoll
  \/ WriterTake
  \/ WriterAck
  \/ RoleChange

SpecHandoff == Init /\ [][NextHandoff]_vars

\* C25: no reachable state is a deadlock of the handoff: while an Add is
\* inside persist or the writer has a chunk to acknowledge, one of the two
\* threads can take a step
C25_NoDeadlock ==
  (Running /\ (call.pc = "persist" \/ writer # 0))
    => ENABLED (StoreAdd \/ AddRoll \/ WriterTake \/ WriterAck)

====
